---- MODULE Spec2Model ----
(***************************************************************************)
(* RadarLineSeries (radar-line/radarLineSeries.ts): the data-binding       *)
(* pipeline of one radar-line series.  Records are processed into columns, *)
(* two scales project them to node geometry, update() re-binds the visual  *)
(* selections, and pickNodeClosestDatum resolves a pointer location.       *)
(*                                                                         *)
(* Numbers.  JavaScript numbers are modelled as integers (one unit = one   *)
(* pixel).  NaN and undefined are two reserved integers outside every      *)
(* coordinate range, and every arithmetic operator below propagates NaN    *)
(* as IEEE arithmetic does.  Math.cos / Math.sin are tabulated in          *)
(* thousandths for the angles a band scale of up to four categories can    *)
(* produce; a product with them is rounded to the nearest unit.            *)
(* Math.sqrt is strictly increasing, so every comparison of two distances  *)
(* is made on their squares; only the distance a pick reports is a square  *)
(* root (rounded down).                                                    *)
(*                                                                         *)
(* An optional value (T | undefined) that is not a number is a sequence of *)
(* length at most one: << >> is undefined.                                 *)
(***************************************************************************)
EXTENDS Integers, Sequences, FiniteSets, TLC

VARIABLES
    data,               \* Series.data: the raw records
    angleKey,           \* RadarLineSeries.angleKey
    radiusKey,          \* RadarLineSeries.radiusKey
    dataModel,          \* Series.dataModel (optional)
    processedData,      \* Series.processedData (optional)
    angleDomain,        \* angleScale.domain
    radiusDomain,       \* radiusScale.domain
    radiusRange,        \* radiusScale.range
    nodeData,           \* RadarLineSeries.nodeData
    nodeDataRefresh,    \* Series.nodeDataRefresh
    visible,            \* Series.visible
    marker,             \* RadarLineSeries.marker: [enabled, size]
    rootTranslation,    \* translation of rootGroup and its ancestors
    activeHighlight,    \* highlightManager.getActiveHighlight() (optional)
    angleAxisSelection, \* spokes: the data bound and the end point drawn
    radiusAxisSelection,\* ring: the radius drawn
    pathSelection,      \* connecting path: the vertices drawn
    markerSelection,    \* markers
    highlightSelection, \* highlight marker
    labelSelection,     \* labels
    ret                 \* the operation that ran last and what it returned

vars == <<data, angleKey, radiusKey, dataModel, processedData, angleDomain,
          radiusDomain, radiusRange, nodeData, nodeDataRefresh, visible, marker,
          rootTranslation, activeHighlight, angleAxisSelection,
          radiusAxisSelection, pathSelection, markerSelection,
          highlightSelection, labelSelection, ret>>

(***************************************************************************)
(* Bounds and input sets                                                   *)
(***************************************************************************)
MaxRecords == 2

\* JavaScript NaN and undefined, as integers no coordinate or value reaches.
NaN == -99999
Undefined == -88888

\* The records a data array is drawn from.  The last one has no radius
\* field: its radius value is absent, hence invalid.
Records ==
    { [angle |-> "A", radius |-> 2],
      [angle |-> "B", radius |-> 1],
      [angle |-> "B", radius |-> -1],
      [angle |-> "C"] }

RECURSIVE SeqsUpTo(_, _)
SeqsUpTo(S, n) ==
    IF n = 0 THEN { << >> }
    ELSE LET shorter == SeqsUpTo(S, n - 1)
         IN  shorter \cup { Append(s, r) : s \in { t \in shorter : Len(t) = n - 1 }, r \in S }

DataSets == SeqsUpTo(Records, MaxRecords)

\* Side lengths of the plotting rectangle handed to update().
RectSides == {12, 24}

\* Values of marker.size (validated NUMBER(0)).
MarkerSizes == {0, 6}

\* Translations the scene graph may apply to the series' root group.
Translations == { [x |-> 0, y |-> 0], [x |-> 3, y |-> 0] }

\* PolarSeries.centerX / centerY as constructed.
centerX == 0
centerY == 0

(***************************************************************************)
(* Arithmetic                                                              *)
(***************************************************************************)
isNaN(x) == x = NaN

Abs(x) == IF x < 0 THEN -x ELSE x

Min(a, b) == IF a < b THEN a ELSE b

Max(a, b) == IF a > b THEN a ELSE b

\* a / b rounded to the nearest integer, half away from zero (b > 0).
RoundDiv(a, b) ==
    IF a >= 0 THEN (2 * a + b) \div (2 * b) ELSE -((2 * (-a) + b) \div (2 * b))

Add(a, b) == IF isNaN(a) \/ isNaN(b) THEN NaN ELSE a + b

RECURSIVE SqrtFrom(_, _)
SqrtFrom(n, r) == IF (r + 1) * (r + 1) > n THEN r ELSE SqrtFrom(n, r + 1)

\* Math.sqrt, rounded down.
Sqrt(n) == SqrtFrom(n, 0)

\* datum[key] of a raw record: optional.
Field(datum, key) == IF key \in DOMAIN datum THEN <<datum[key]>> ELSE << >>

\* A radius field as the number the value extractor keeps: an absent (invalid)
\* value becomes invalidValue, undefined.
RadiusValue(datum, key) ==
    IF Field(datum, key) = << >> THEN Undefined ELSE Field(datum, key)[1]

isNumber(v) == v # Undefined /\ v # NaN

RECURSIVE Distinct(_)
\* The distinct members of a sequence, in order of first appearance.
Distinct(s) ==
    IF s = << >> THEN << >>
    ELSE LET front == Distinct(SubSeq(s, 1, Len(s) - 1))
             last  == s[Len(s)]
         IN  IF \E i \in 1..Len(front) : front[i] = last THEN front
             ELSE Append(front, last)

RECURSIVE Numbers(_)
\* The members of a sequence that are numbers, in order.
Numbers(s) ==
    IF s = << >> THEN << >>
    ELSE IF isNumber(s[1]) THEN <<s[1]>> \o Numbers(Tail(s))
    ELSE Numbers(Tail(s))

(***************************************************************************)
(* Value extractor: DataModel                                              *)
(***************************************************************************)
\* new DataModel({props: [angleValue, radiusValue]}).processData(data): one
\* entry per record, in order; the domain of a property is the distinct valid
\* values of its column.
DataModelProcessData(d, aKey, rKey) ==
    LET entries == [i \in 1..Len(d) |->
                      [datum  |-> d[i],
                       values |-> [angleValue  |-> Field(d[i], aKey)[1],
                                   radiusValue |-> RadiusValue(d[i], rKey)]]]
    IN  [data   |-> entries,
         domain |-> [angleValue  |-> Distinct([i \in 1..Len(d) |-> entries[i].values.angleValue]),
                     radiusValue |-> Distinct(Numbers([i \in 1..Len(d) |-> entries[i].values.radiusValue]))]]

\* dataModel.getDomain(id, processedData)
DataModelGetDomain(id, pd) == pd.domain[id]

\* extent(values): [min, max] of the numbers among values.
extent(values) ==
    LET nums == { values[i] : i \in 1..Len(values) }
    IN  << CHOOSE m \in nums : \A v \in nums : m <= v,
           CHOOSE m \in nums : \A v \in nums : m >= v >>

\* Series.fixNumericExtent: a zero-length domain at 0 becomes the default [0, 1].
fixNumericExtent(e) == IF e = <<0, 0>> THEN <<0, 1>> ELSE e

X == "x"
Y == "y"

\* getDomain(direction), on a given dataModel and processedData
getDomainOf(direction, dm, pd) ==
    IF pd = << >> \/ dm = << >> THEN << >>
    ELSE IF direction = X THEN DataModelGetDomain("angleValue", pd[1])
    ELSE fixNumericExtent(extent(<<0>> \o DataModelGetDomain("radiusValue", pd[1])))

getDomain(direction) == getDomainOf(direction, dataModel, processedData)

(***************************************************************************)
(* Scale pair                                                              *)
(***************************************************************************)
\* Angles are counted in twelfths of a turn (units of pi/6): the band scale's
\* range [-pi/2, 3pi/2] is [-3, 9].
AngleRange == <<-3, 9>>

\* BandScale.convert: the start of the band of d; NaN when d is not in the
\* domain.  Without padding, band i of n starts at r0 + i * (r1 - r0) / n.
BandScaleConvert(domain, range, d) ==
    IF \E i \in 1..Len(domain) : domain[i] = d
    THEN LET i == CHOOSE i \in 1..Len(domain) : domain[i] = d
         IN  range[1] + ((i - 1) * (range[2] - range[1])) \div Len(domain)
    ELSE NaN

\* LinearScale.convert: NaN for a value that is not a number.
LinearScaleConvert(domain, range, v) ==
    IF ~isNumber(v) \/ Len(domain) < 2 THEN NaN
    ELSE range[1] + RoundDiv((v - domain[1]) * (range[2] - range[1]), domain[2] - domain[1])

\* 1000 * cos(k * pi/6), k in 0..11
CosTable == <<1000, 866, 500, 0, -500, -866, -1000, -866, -500, 0, 500, 866>>

\* Math.cos and Math.sin of an angle, in thousandths
Cos(angle) == IF isNaN(angle) THEN NaN ELSE CosTable[(angle % 12) + 1]

Sin(angle) == IF isNaN(angle) THEN NaN ELSE CosTable[((angle - 3) % 12) + 1]

\* c * r for c a cosine or sine in thousandths
TrigTimes(c, r) == IF isNaN(c) \/ isNaN(r) THEN NaN ELSE RoundDiv(c * r, 1000)

(***************************************************************************)
(* Node data builder                                                       *)
(***************************************************************************)
\* label.enabled as constructed (Label.enabled); no label formatter is set.
labelEnabled == TRUE

\* Number.prototype.toFixed(2) of an integer
toFixed2(v) == ToString(v) \o ".00"

\* isNumberEqual(c, 0) for a cosine or sine in thousandths
isNumberEqualZero(c) == c = 0

\* The label descriptor of a node (optional): lines 302-323.
LabelNodeDatum(radiusDatum, x, y, cos, sin, mk) ==
    IF ~labelEnabled THEN << >>
    ELSE LET labelText == IF isNumber(radiusDatum) THEN toFixed2(radiusDatum) ELSE ""
         IN  IF labelText = "" THEN << >>
             ELSE << [text   |-> labelText,
                      x      |-> Add(x, TrigTimes(cos, mk.size)),
                      y      |-> Add(y, TrigTimes(sin, mk.size)),
                      hAlign |-> IF isNumberEqualZero(cos) THEN "center"
                                 ELSE IF cos > 0 THEN "left" ELSE "right",
                      vAlign |-> IF isNumberEqualZero(sin) THEN "middle"
                                 ELSE IF sin > 0 THEN "top" ELSE "bottom"] >>

\* The node datum of one processed entry: the callback of lines 287-332.
NodeDatum(group, aDom, rDom, rRange, mk) ==
    LET angleDatum  == group.values.angleValue
        radiusDatum == group.values.radiusValue
        angle  == BandScaleConvert(aDom, AngleRange, angleDatum)
        radius == LinearScaleConvert(rDom, rRange, radiusDatum)
        cos == Cos(angle)
        sin == Sin(angle)
        x == Add(centerX, TrigTimes(cos, radius))
        y == Add(centerY, TrigTimes(sin, radius))
    IN  [datum        |-> group.datum,
         point        |-> [x |-> x, y |-> y, size |-> mk.size],
         nodeMidPoint |-> [x |-> x, y |-> y],
         label        |-> LabelNodeDatum(radiusDatum, x, y, cos, sin, mk)]

RECURSIVE ValidEntries(_)
ValidEntries(entries) ==
    IF entries = << >> THEN << >>
    ELSE IF isNumber(entries[1].values.radiusValue)
         THEN <<entries[1]>> \o ValidEntries(Tail(entries))
         ELSE ValidEntries(Tail(entries))

\* MapNodeData with the entries of invalid radius filtered out before the map
MapNodeData_dropInvalid(entries, aDom, rDom, rRange, mk) ==
    LET kept == ValidEntries(entries)
    IN  [i \in 1..Len(kept) |-> NodeDatum(kept[i], aDom, rDom, rRange, mk)]

\* The node data of a processed data set under given scales: processedData.data.map(...)
MapNodeData(entries, aDom, rDom, rRange, mk) ==
    [i \in 1..Len(entries) |-> NodeDatum(entries[i], aDom, rDom, rRange, mk)]

\* _createNodeData(): the node groups built from the current state
createNodeDataOf(pd, dm, aKey, rKey, aDom, rDom, rRange, mk) ==
    IF pd = << >> \/ dm = << >> \/ aKey = "" \/ rKey = "" THEN << >>
    ELSE LET nd == MapNodeData(pd[1].data, aDom, rDom, rRange, mk)
         IN  << [itemId |-> rKey, nodeData |-> nd, labelData |-> nd] >>

\* _createNodeData() with the radius scale's range given (update() sets it first)
createNodeDataAt(rRange) ==
    createNodeDataOf(processedData, dataModel, angleKey, radiusKey,
                     angleDomain, radiusDomain, rRange, marker)

\* createNodeData()
createNodeData == createNodeDataAt(radiusRange)

(***************************************************************************)
(* Geometry synchronizer: what update() binds to each selection            *)
(***************************************************************************)
\* updateRadiusScale(bbox): the new range of the radius scale
updateRadiusScale(bbox) == <<0, Min(bbox.width, bbox.height) \div 2>>

\* maybeRefreshNodeData(): the node data after the call, given the range
maybeRefreshNodeData(rRange) ==
    IF ~nodeDataRefresh THEN nodeData
    ELSE LET groups == createNodeDataAt(rRange)
         IN  IF groups = << >> THEN << >> ELSE groups[1].nodeData

RECURSIVE FirstOfCategory(_)
\* The nodes whose angle value no earlier node holds, in order
FirstOfCategory(nd) ==
    IF nd = << >> THEN << >>
    ELSE LET front == FirstOfCategory(SubSeq(nd, 1, Len(nd) - 1))
             last  == nd[Len(nd)]
         IN  IF \E i \in 1..Len(front) :
                   Field(front[i].datum, angleKey) = Field(last.datum, angleKey)
             THEN front
             ELSE Append(front, last)

\* drawTempAxisSpokes with one spoke per category: the nodes that repeat an
\* angle value get none
drawTempAxisSpokes_perCategory(nd, rRange) ==
    LET bound == IF visible THEN FirstOfCategory(nd) ELSE << >>
    IN  [i \in 1..Len(bound) |->
           LET key   == Field(bound[i].datum, angleKey)
               angle == IF key = << >> THEN NaN
                        ELSE BandScaleConvert(angleDomain, AngleRange, key[1])
           IN  [datum |-> bound[i],
                x     |-> Add(centerX, TrigTimes(Cos(angle), rRange[2])),
                y     |-> Add(centerY, TrigTimes(Sin(angle), rRange[2]))]]

\* drawTempAxis(): the spokes, one per datum bound
drawTempAxisSpokes(nd, rRange) ==
    LET bound == IF visible THEN nd ELSE << >>
    IN  [i \in 1..Len(bound) |->
           LET key   == Field(bound[i].datum, angleKey)
               angle == IF key = << >> THEN NaN
                        ELSE BandScaleConvert(angleDomain, AngleRange, key[1])
           IN  [datum |-> bound[i],
                x     |-> Add(centerX, TrigTimes(Cos(angle), rRange[2])),
                y     |-> Add(centerY, TrigTimes(Sin(angle), rRange[2]))]]

\* drawTempAxis(): the ring
drawTempAxisRing(rRange) ==
    IF visible THEN << [cx |-> centerX, cy |-> centerY, radius |-> rRange[2]] >> ELSE << >>

\* updatePath(): the closed polyline through every node point, in array order
updatePath(nd) ==
    IF visible THEN << [i \in 1..Len(nd) |-> <<nd[i].point.x, nd[i].point.y>>] >> ELSE << >>

\* highlighted?.datum: there is an active highlight and it carries a datum
hasHighlightedDatum ==
    activeHighlight # << >> /\ "datum" \in DOMAIN activeHighlight[1]

\* MarkerSelectionData without the highlight branch: both selections get the nodes
MarkerSelectionData_allNodes(nd, highlight) ==
    IF visible /\ marker.enabled THEN nd ELSE << >>

\* updateMarkers(selection, highlight): the data bound to the selection
MarkerSelectionData(nd, highlight) ==
    IF visible /\ marker.enabled
    THEN IF highlight
         THEN IF hasHighlightedDatum THEN <<activeHighlight[1]>> ELSE << >>
         ELSE nd
    ELSE << >>

RECURSIVE FiniteNodes(_)
FiniteNodes(nd) ==
    IF nd = << >> THEN << >>
    ELSE IF isNaN(nd[1].point.x) \/ isNaN(nd[1].point.y)
         THEN FiniteNodes(Tail(nd))
         ELSE <<nd[1]>> \o FiniteNodes(Tail(nd))

\* updateMarkers that removes the markers it should hide
updateMarkers_removeHidden(nd, highlight) ==
    LET selectionData == IF marker.size > 0
                         THEN FiniteNodes(MarkerSelectionData(nd, highlight))
                         ELSE << >>
    IN  [i \in 1..Len(selectionData) |->
           [datum        |-> selectionData[i],
            size         |-> marker.size,
            translationX |-> selectionData[i].point.x,
            translationY |-> selectionData[i].point.y,
            visible      |-> TRUE]]

\* updateMarkers(selection, highlight): one marker per datum bound
updateMarkers(nd, highlight) ==
    LET selectionData == MarkerSelectionData(nd, highlight)
    IN  [i \in 1..Len(selectionData) |->
           LET x == selectionData[i].point.x
               y == selectionData[i].point.y
           IN  [datum        |-> selectionData[i],
                size         |-> marker.size,
                translationX |-> x,
                translationY |-> y,
                visible      |-> marker.size > 0 /\ ~isNaN(x) /\ ~isNaN(y)]]

\* updateLabels(): one text node per node datum
updateLabels(nd) ==
    [i \in 1..Len(nd) |->
       IF labelEnabled /\ nd[i].label # << >>
       THEN [visible |-> TRUE, label |-> nd[i].label]
       ELSE [visible |-> FALSE, label |-> << >>]]

(***************************************************************************)
(* Hit tester                                                              *)
(***************************************************************************)
\* rootGroup.transformPoint(x, y): the inverse of the root transform
transformPoint(x, y) == [x |-> x - rootTranslation.x, y |-> y - rootTranslation.y]

\* (x1 - x2) ** 2 + (y1 - y2) ** 2
SquaredDistance(x1, y1, x2, y2) == (x1 - x2) * (x1 - x2) + (y1 - y2) * (y1 - y2)

RECURSIVE ClosestFrom_lastWins(_, _, _, _)
\* ClosestFrom with distance <= minDistance: the last of several closest nodes wins
ClosestFrom_lastWins(nd, hitPoint, i, best) ==
    IF i > Len(nd) THEN best
    ELSE LET datumX == nd[i].point.x
             datumY == nd[i].point.y
         IN  IF isNaN(datumX) \/ isNaN(datumY)
             THEN ClosestFrom_lastWins(nd, hitPoint, i + 1, best)
             ELSE LET distanceSq == SquaredDistance(hitPoint.x, hitPoint.y, datumX, datumY)
                  IN  IF best.index = 0 \/ distanceSq <= best.sq
                      THEN ClosestFrom_lastWins(nd, hitPoint, i + 1, [index |-> i, sq |-> distanceSq])
                      ELSE ClosestFrom_lastWins(nd, hitPoint, i + 1, best)

RECURSIVE ClosestFrom(_, _, _, _)
\* The scan of lines 601-612 from node i on: best is the index of closestDatum
\* (0: none yet) and bestSq the square of minDistance.
ClosestFrom(nd, hitPoint, i, best) ==
    IF i > Len(nd) THEN best
    ELSE LET datumX == nd[i].point.x
             datumY == nd[i].point.y
         IN  IF isNaN(datumX) \/ isNaN(datumY)
             THEN ClosestFrom(nd, hitPoint, i + 1, best)
             ELSE LET distanceSq == SquaredDistance(hitPoint.x, hitPoint.y, datumX, datumY)
                  IN  IF best.index = 0 \/ distanceSq < best.sq
                      THEN ClosestFrom(nd, hitPoint, i + 1, [index |-> i, sq |-> distanceSq])
                      ELSE ClosestFrom(nd, hitPoint, i + 1, best)

\* OutsideChart measured from the transformed point instead of the raw one
OutsideChart_hitPoint(x, y) ==
    SquaredDistance(transformPoint(x, y).x, transformPoint(x, y).y, centerX, centerY)
        > (radiusRange[2] + marker.size) * (radiusRange[2] + marker.size)

\* Whether pickNodeClosestDatum returns before the scan (lines 593-596)
OutsideChart(x, y) ==
    SquaredDistance(x, y, centerX, centerY)
        > (radiusRange[2] + marker.size) * (radiusRange[2] + marker.size)

\* pickNodeClosestDatum without the clamp of the reported distance at 0
pickNodeClosestDatum_noClamp(x, y) ==
    IF OutsideChart(x, y) THEN << >>
    ELSE LET hitPoint == transformPoint(x, y)
             closest  == ClosestFrom(nodeData, hitPoint, 1, [index |-> 0, sq |-> 0])
         IN  IF closest.index = 0 THEN << >>
             ELSE << [index    |-> closest.index,
                      datum    |-> nodeData[closest.index],
                      distance |-> Sqrt(closest.sq) - nodeData[closest.index].point.size] >>

\* pickNodeClosestDatum(point): optional match.  index is the position in
\* nodeData of the datum object returned.
pickNodeClosestDatum(x, y) ==
    IF OutsideChart(x, y) THEN << >>
    ELSE LET hitPoint == transformPoint(x, y)
             closest  == ClosestFrom(nodeData, hitPoint, 1, [index |-> 0, sq |-> 0])
         IN  IF closest.index = 0 THEN << >>
             ELSE << [index    |-> closest.index,
                      datum    |-> nodeData[closest.index],
                      distance |-> Max(Sqrt(closest.sq) - nodeData[closest.index].point.size, 0)] >>

(***************************************************************************)
(* Interaction / legend glue                                               *)
(***************************************************************************)
\* Series.id of this series and of another series of the same chart
thisId == "series-1"
otherId == "series-2"
SeriesIds == {thisId, otherId}

\* Legend events: the series the item belongs to, the item's enabled flag and
\* the number of visible items per series.
LegendEvents ==
    [series : SeriesIds, enabled : BOOLEAN, numVisibleItems : [SeriesIds -> {0, 1}]]

\* Legend click events: the series the item belongs to and the item's enabled flag
LegendClickEvents == [series : SeriesIds, enabled : BOOLEAN]

\* Object.values(numVisibleItems).reduce((p, v) => p + v, 0)
totalVisibleItems(event) ==
    event.numVisibleItems[thisId] + event.numVisibleItems[otherId]

\* String(value) of an angle field and toFixed(value) of a radius field
formattedAngleValue(datum) ==
    IF Field(datum, angleKey) = << >> THEN "undefined" ELSE Field(datum, angleKey)[1]

formattedRadiusValue(datum) ==
    IF Field(datum, radiusKey) = << >> THEN "undefined" ELSE toFixed2(Field(datum, radiusKey)[1])

\* getTooltipHtml(nodeDatum): the html, with the default title and content
getTooltipHtml(nodeDatum) ==
    IF angleKey = "" \/ radiusKey = "" THEN ""
    ELSE "<div>" \o formattedAngleValue(nodeDatum.datum) \o ": "
                 \o formattedRadiusValue(nodeDatum.datum) \o "</div>"

\* getLegendData()
getLegendData ==
    IF ~(Len(data) > 0 /\ angleKey # "" /\ radiusKey # "") THEN << >>
    ELSE << [legendType |-> "category", id |-> thisId, itemId |-> radiusKey,
             seriesId |-> thisId, enabled |-> visible,
             label |-> [text |-> radiusKey]] >>

\* newEnabled of onLegendItemDoubleClick (lines 581-582), reached only when
\* the event's series is this one
doubleClickNewEnabled(event) ==
    LET wasClicked == event.series = thisId
    IN  wasClicked \/ (event.enabled /\ totalVisibleItems(event) = 1)

(***************************************************************************)
(* State machine                                                           *)
(***************************************************************************)
Returned(op, arg, val) == [op |-> op, arg |-> arg, val |-> val]

\* Nothing to tell of the last operation: a setter or an event handler ran
Idle == Returned("", << >>, << >>)

HighlightDatum ==
    [datum |-> [angle |-> "A", radius |-> 2],
     point |-> [x |-> 0, y |-> -6, size |-> 6],
     nodeMidPoint |-> [x |-> 0, y |-> -6],
     label |-> << >>]

\* An active highlight that carries no datum
HighlightNoDatum ==
    [point |-> [x |-> 0, y |-> -6, size |-> 6],
     nodeMidPoint |-> [x |-> 0, y |-> -6],
     label |-> << >>]

\* What highlightManager.getActiveHighlight() may report
ActiveHighlights == { << >>, <<HighlightDatum>>, <<HighlightNoDatum>> }

Init ==
    /\ data = << >>
    /\ angleKey = ""
    /\ radiusKey = ""
    /\ dataModel = << >>
    /\ processedData = << >>
    /\ angleDomain = << >>
    /\ radiusDomain = <<0, 1>>
    /\ radiusRange = <<0, 1>>
    /\ nodeData = << >>
    /\ nodeDataRefresh = TRUE
    /\ visible = TRUE
    /\ marker = [enabled |-> TRUE, size |-> 6]
    /\ rootTranslation = [x |-> 0, y |-> 0]
    /\ activeHighlight = << >>
    /\ angleAxisSelection = << >>
    /\ radiusAxisSelection = << >>
    /\ pathSelection = << >>
    /\ markerSelection = << >>
    /\ highlightSelection = << >>
    /\ labelSelection = << >>
    /\ ret = Idle

selections == <<angleAxisSelection, radiusAxisSelection, pathSelection,
                markerSelection, highlightSelection, labelSelection>>

scales == <<angleDomain, radiusDomain, radiusRange>>

config == <<angleKey, radiusKey, marker>>

\* series.data = d: the host assigns the records once
SetData(d) ==
    /\ data = << >>
    /\ data' = d
    /\ nodeDataRefresh' = TRUE
    /\ ret' = Idle
    /\ UNCHANGED <<config, dataModel, processedData, scales, nodeData, visible,
                   rootTranslation, activeHighlight, selections>>

\* series.angleKey = k
SetAngleKey(k) ==
    /\ angleKey # k
    /\ angleKey' = k
    /\ ret' = Idle
    /\ UNCHANGED <<data, radiusKey, marker, dataModel, processedData, scales, nodeData,
                   nodeDataRefresh, visible, rootTranslation, activeHighlight, selections>>

\* series.radiusKey = k
SetRadiusKey(k) ==
    /\ radiusKey # k
    /\ radiusKey' = k
    /\ ret' = Idle
    /\ UNCHANGED <<data, angleKey, marker, dataModel, processedData, scales, nodeData,
                   nodeDataRefresh, visible, rootTranslation, activeHighlight, selections>>

\* series.marker.enabled = e; series.marker.size = size
SetMarker(e, size) ==
    /\ radiusRange = <<0, 1>>
    /\ marker # [enabled |-> e, size |-> size]
    /\ marker' = [enabled |-> e, size |-> size]
    /\ ret' = Idle
    /\ UNCHANGED <<data, angleKey, radiusKey, dataModel, processedData, scales, nodeData,
                   nodeDataRefresh, visible, rootTranslation, activeHighlight, selections>>

\* The host lays the scene graph out: the root group's translation
LayoutRootGroup(t) ==
    /\ radiusRange = <<0, 1>>
    /\ rootTranslation # t
    /\ rootTranslation' = t
    /\ ret' = Idle
    /\ UNCHANGED <<data, config, dataModel, processedData, scales, nodeData,
                   nodeDataRefresh, visible, activeHighlight, selections>>

\* The highlight manager's active highlight changes: a node of this series or none
ChangeHighlight(h) ==
    /\ activeHighlight # h
    /\ activeHighlight' = h
    /\ ret' = Idle
    /\ UNCHANGED <<data, config, dataModel, processedData, scales, nodeData,
                   nodeDataRefresh, visible, rootTranslation, selections>>

\* Series.markNodeDataDirty()
markNodeDataDirty ==
    /\ ~nodeDataRefresh
    /\ nodeDataRefresh' = TRUE
    /\ ret' = Idle
    /\ UNCHANGED <<data, config, dataModel, processedData, scales, nodeData,
                   visible, rootTranslation, activeHighlight, selections>>

\* processData()
processData ==
    /\ ret' = Returned("processData", << >>, << >>)
    /\ IF angleKey = "" \/ radiusKey = ""
       THEN UNCHANGED <<dataModel, processedData, angleDomain, radiusDomain>>
       ELSE LET dm == << [angleValue |-> angleKey, radiusValue |-> radiusKey] >>
                pd == << DataModelProcessData(data, angleKey, radiusKey) >>
            IN  /\ dataModel' = dm
                /\ processedData' = pd
                /\ angleDomain' = getDomainOf(X, dm, pd)
                /\ radiusDomain' = getDomainOf(Y, dm, pd)
    /\ UNCHANGED <<data, config, radiusRange, nodeData, nodeDataRefresh, visible,
                   rootTranslation, activeHighlight, selections>>

\* update({seriesRect})
update(seriesRect) ==
    LET rRange == updateRadiusScale(seriesRect)
        nd     == maybeRefreshNodeData(rRange)
    IN  /\ radiusRange' = rRange
        /\ nodeData' = nd
        /\ nodeDataRefresh' = FALSE
        /\ angleAxisSelection' = drawTempAxisSpokes(nd, rRange)
        /\ radiusAxisSelection' = drawTempAxisRing(rRange)
        /\ pathSelection' = updatePath(nd)
        /\ markerSelection' = updateMarkers(nd, FALSE)
        /\ highlightSelection' = updateMarkers(nd, TRUE)
        /\ labelSelection' = updateLabels(nd)
        /\ ret' = Returned("update", << >>, << >>)
        /\ UNCHANGED <<data, config, dataModel, processedData, angleDomain, radiusDomain,
                       visible, rootTranslation, activeHighlight>>

\* Series.toggleSeriesItem(itemId, enabled)
toggleSeriesItem(enabled) ==
    /\ visible' = enabled
    /\ nodeDataRefresh' = TRUE

\* onLegendItemClick that also empties the marker set when it hides the series
onLegendItemClick_redraws(event) ==
    /\ IF event.series = thisId
       THEN toggleSeriesItem(event.enabled)
       ELSE UNCHANGED <<visible, nodeDataRefresh>>
    /\ markerSelection' = IF event.series = thisId /\ ~event.enabled
                          THEN << >> ELSE markerSelection
    /\ ret' = Idle
    /\ UNCHANGED <<data, config, dataModel, processedData, scales, nodeData,
                   rootTranslation, activeHighlight, angleAxisSelection,
                   radiusAxisSelection, pathSelection, highlightSelection,
                   labelSelection>>

\* onLegendItemClick(event)
onLegendItemClick(event) ==
    /\ IF event.series = thisId
       THEN toggleSeriesItem(event.enabled)
       ELSE UNCHANGED <<visible, nodeDataRefresh>>
    /\ ret' = Idle
    /\ UNCHANGED <<data, config, dataModel, processedData, scales, nodeData,
                   rootTranslation, activeHighlight, selections>>

\* onLegendItemDoubleClick(event)
onLegendItemDoubleClick(event) ==
    /\ IF event.series # thisId
       THEN UNCHANGED <<visible, nodeDataRefresh>>
       ELSE toggleSeriesItem(doubleClickNewEnabled(event))
    /\ ret' = Returned("onLegendItemDoubleClick", <<event.series>>, << >>)
    /\ UNCHANGED <<data, config, dataModel, processedData, scales, nodeData,
                   rootTranslation, activeHighlight, selections>>

state == <<data, config, dataModel, processedData, scales, nodeData, nodeDataRefresh,
           visible, rootTranslation, activeHighlight, selections>>

\* createNodeData()
CallCreateNodeData ==
    /\ ret' = Returned("createNodeData", << >>, createNodeData)
    /\ UNCHANGED state

\* getDomain(direction)
CallGetDomain(direction) ==
    /\ ret' = Returned("getDomain", <<direction>>, getDomain(direction))
    /\ UNCHANGED state

\* getLegendData()
CallGetLegendData ==
    /\ ret' = Returned("getLegendData", << >>, getLegendData)
    /\ UNCHANGED state

\* getTooltipHtml(nodeDatum)
CallGetTooltipHtml(nodeDatum) ==
    /\ ret' = Returned("getTooltipHtml", <<nodeDatum>>, <<getTooltipHtml(nodeDatum)>>)
    /\ UNCHANGED state

\* pickNodeClosestDatum(point)
CallPickNodeClosestDatum(x, y) ==
    /\ ret' = Returned("pickNodeClosestDatum", <<x, y>>, pickNodeClosestDatum(x, y))
    /\ UNCHANGED state

\* Rectangles handed to update()
SeriesRects == [width : RectSides, height : RectSides]

\* Coordinates of query points
QueryCoords == {-19, -3, 0, 6, 19}

\* Query points on the grid
QueryGrid == QueryCoords \X QueryCoords

\* The query points a pick is tried at: a few grid points and, for every node
\* with finite coordinates, the point the root transform maps onto it
QueryPoints ==
    { <<0, 0>>, <<0, -3>>, <<3, 0>>, <<0, -19>>, <<19, 19>> }
      \cup { <<nodeData[i].point.x + rootTranslation.x, nodeData[i].point.y + rootTranslation.y>> :
               i \in { j \in 1..Len(nodeData) :
                         ~isNaN(nodeData[j].point.x) /\ ~isNaN(nodeData[j].point.y) } }

\* The data pipeline, whatever the host does with the series
Pipeline ==
    \/ \E d \in DataSets : SetData(d)
    \/ \E k \in {"", "angle"} : SetAngleKey(k)
    \/ \E k \in {"", "radius"} : SetRadiusKey(k)
    \/ markNodeDataDirty
    \/ processData
    \/ \E r \in SeriesRects : update(r)

\* The pipeline, the marker configuration and the legend's events
Next ==
    \/ Pipeline
    \/ \E e \in BOOLEAN, size \in MarkerSizes : SetMarker(e, size)
    \/ \E e \in LegendClickEvents : onLegendItemClick(e)
    \/ \E e \in LegendEvents : onLegendItemDoubleClick(e)

Spec == Init /\ [][Next]_vars

\* The pipeline, the marker configuration and the highlight manager
HighlightNext ==
    \/ Pipeline
    \/ \E e \in BOOLEAN, size \in MarkerSizes : SetMarker(e, size)
    \/ \E h \in ActiveHighlights : ChangeHighlight(h)
    \/ \E e \in LegendClickEvents : onLegendItemClick(e)

HighlightSpec == Init /\ [][HighlightNext]_vars

\* The pipeline and the queries of the host on it
DataNext ==
    \/ Pipeline
    \/ CallCreateNodeData
    \/ \E direction \in {X, Y} : CallGetDomain(direction)
    \/ CallGetLegendData
    \/ \E i \in 1..Len(nodeData) : CallGetTooltipHtml(nodeData[i])

DataSpec == Init /\ [][DataNext]_vars

\* The pipeline and the pointer
PickNext ==
    \/ Pipeline
    \/ \E size \in MarkerSizes : SetMarker(TRUE, size)
    \/ \E t \in Translations : LayoutRootGroup(t)
    \/ \E q \in QueryPoints : CallPickNodeClosestDatum(q[1], q[2])

PickSpec == Init /\ [][PickNext]_vars

\* The pipeline, the legend's events, the pointer and the tooltip
FrameNext ==
    \/ Pipeline
    \/ \E e \in LegendClickEvents : onLegendItemClick(e)
    \/ \E e \in LegendEvents : onLegendItemDoubleClick(e)
    \/ \E q \in QueryPoints : CallPickNodeClosestDatum(q[1], q[2])
    \/ \E i \in 1..Len(nodeData) : CallGetTooltipHtml(nodeData[i])

FrameSpec == Init /\ [][FrameNext]_vars

(***************************************************************************)
(* Properties                                                              *)
(***************************************************************************)
keysConfigured == angleKey # "" /\ radiusKey # ""

\* C1: createNodeData, run after a processData pass with both keys
\* configured, returns one group holding exactly one node datum per input
\* record, node i carrying record i; a record of invalid radius keeps its
\* index.  The records reach the builder through the value extractor, which
\* keeps one entry per record of data, in order.
C1_OneNodePerRecord ==
    /\ (ret.op = "processData" /\ keysConfigured) =>
          /\ processedData # << >>
          /\ Len(processedData[1].data) = Len(data)
          /\ \A i \in 1..Len(data) : processedData[1].data[i].datum = data[i]
    /\ (ret.op = "createNodeData" /\ processedData # << >> /\ keysConfigured) =>
          /\ Len(ret.val) = 1
          /\ Len(ret.val[1].nodeData) = Len(processedData[1].data)
          /\ \A i \in 1..Len(processedData[1].data) :
                ret.val[1].nodeData[i].datum = processedData[1].data[i].datum

\* C1 witness: createNodeData has returned two nodes, the first for a record
\* of invalid radius (its point is NaN), the second for a valid one.
C1_Witness ==
    /\ ret.op = "createNodeData"
    /\ keysConfigured
    /\ Len(ret.val) = 1
    /\ Len(ret.val[1].nodeData) = 2
    /\ ret.val[1].nodeData[1].datum = [angle |-> "C"]
    /\ isNaN(ret.val[1].nodeData[1].point.x)
    /\ ret.val[1].nodeData[2].datum = [angle |-> "A", radius |-> 2]
    /\ ~isNaN(ret.val[1].nodeData[2].point.x)

\* C2 (as claimed): whenever angleKey or radiusKey is empty, processData
\* leaves no processed data, createNodeData returns no groups, getDomain
\* returns an empty domain for both directions, getLegendData returns no
\* entries and getTooltipHtml returns the empty string.
C2_EmptyKeysGiveEmptyResults ==
    ~keysConfigured =>
        /\ ret.op = "processData" => processedData = << >>
        /\ ret.op = "createNodeData" => ret.val = << >>
        /\ ret.op = "getDomain" => ret.val = << >>
        /\ ret.op = "getLegendData" => ret.val = << >>
        /\ ret.op = "getTooltipHtml" => ret.val = <<"">>

\* The numbers among the processed radius values, and 0
RadiusValuesAndZero ==
    {0} \cup { processedData[1].data[i].values.radiusValue :
                 i \in { j \in 1..Len(processedData[1].data) :
                           isNumber(processedData[1].data[j].values.radiusValue) } }

\* C5 (as claimed): after a processData pass the radius scale's domain starts
\* at 0 and ends at the largest of the radius values and 0 (a domain of zero
\* length, where no radius is positive, may be widened), so that convert(0) is
\* at distance 0 from the centre and convert of the domain's maximum is the
\* radial range's maximum.
C5_RadiusDomainZeroBased ==
    (ret.op = "processData" /\ keysConfigured) =>
        LET max == CHOOSE m \in RadiusValuesAndZero : \A v \in RadiusValuesAndZero : m >= v
        IN  /\ radiusDomain[1] = 0
            /\ max > 0 => radiusDomain[2] = max
            /\ LinearScaleConvert(radiusDomain, radiusRange, 0) = 0
            /\ LinearScaleConvert(radiusDomain, radiusRange, radiusDomain[2]) = radiusRange[2]

\* The point record datum projects to under the current keys and scales
Projection(datum) ==
    NodeDatum([datum  |-> datum,
               values |-> [angleValue  |-> IF Field(datum, angleKey) = << >> THEN ""
                                           ELSE Field(datum, angleKey)[1],
                           radiusValue |-> RadiusValue(datum, radiusKey)]],
              angleDomain, radiusDomain, radiusRange, marker).point

\* C7 (as claimed): after any sequence of processData and update calls, when
\* update returns, every node's point is the projection of its record under
\* the current angle domain and the current radial range.
C7_NodesFollowScales ==
    ret.op = "update" =>
        \A i \in 1..Len(nodeData) :
            /\ nodeData[i].point.x = Projection(nodeData[i].datum).x
            /\ nodeData[i].point.y = Projection(nodeData[i].datum).y

\* C6 (as claimed): a legend double-click leaves the series visible when the
\* event's series is this series (it is then the double-clicked target), and
\* hidden otherwise.
C6_DoubleClickIsolates ==
    ret.op = "onLegendItemDoubleClick" => (visible = (ret.arg[1] = thisId))

\* C9: after every update, when markers are enabled and the series is
\* visible the marker set has one member per node datum, in order, placed at
\* that node's point, and otherwise it has no member; a member is hidden
\* exactly when a coordinate of its point is NaN or the marker size is 0.
C9_MarkersFollowNodes ==
    ret.op = "update" =>
        IF marker.enabled /\ visible
        THEN /\ Len(markerSelection) = Len(nodeData)
             /\ \A i \in 1..Len(nodeData) :
                   /\ markerSelection[i].datum = nodeData[i]
                   /\ markerSelection[i].translationX = nodeData[i].point.x
                   /\ markerSelection[i].translationY = nodeData[i].point.y
                   /\ ~markerSelection[i].visible <=>
                         \/ isNaN(nodeData[i].point.x)
                         \/ isNaN(nodeData[i].point.y)
                         \/ marker.size = 0
        ELSE markerSelection = << >>

\* C9 witness: update has bound two markers, the first hidden for its NaN
\* point and still a member, the second shown.
C9_Witness ==
    /\ ret.op = "update"
    /\ marker.enabled /\ visible /\ marker.size > 0
    /\ Len(nodeData) = 2
    /\ Len(markerSelection) = 2
    /\ isNaN(nodeData[1].point.x)
    /\ ~markerSelection[1].visible
    /\ markerSelection[2].visible

\* C10 (as claimed): after every update with the series visible there is one
\* spoke per category of the angle domain, i.e. per distinct angle value of
\* the processed data; with the series not visible there is none.
C10_OneSpokePerCategory ==
    ret.op = "update" =>
        IF visible
        THEN Len(angleAxisSelection) = Len(getDomain(X))
        ELSE angleAxisSelection = << >>

\* C10 (amended): after every update with the series visible there is one
\* spoke per node datum, in order, bound to that node; with the series not
\* visible there is none.
C10_OneSpokePerNode ==
    ret.op = "update" =>
        IF visible
        THEN /\ Len(angleAxisSelection) = Len(nodeData)
             /\ \A i \in 1..Len(nodeData) : angleAxisSelection[i].datum = nodeData[i]
        ELSE angleAxisSelection = << >>

\* C10 witness: update has drawn two spokes for two records that share one
\* angle value.
C10_Witness ==
    /\ ret.op = "update"
    /\ visible
    /\ Len(nodeData) = 2
    /\ Len(angleAxisSelection) = 2
    /\ Len(getDomain(X)) = 1
    /\ angleAxisSelection[1].datum.datum.angle = angleAxisSelection[2].datum.datum.angle

\* Indices of the nodes with finite coordinates
FiniteIndices ==
    { i \in 1..Len(nodeData) : ~isNaN(nodeData[i].point.x) /\ ~isNaN(nodeData[i].point.y) }

\* The query point the root transform maps onto node i's point
QueryAt(i) ==
    <<nodeData[i].point.x + rootTranslation.x, nodeData[i].point.y + rootTranslation.y>>

\* Whether nodes i and j lie at the same point
SamePoint(i, j) ==
    /\ nodeData[i].point.x = nodeData[j].point.x
    /\ nodeData[i].point.y = nodeData[j].point.y

\* C3 (as claimed): for every node with finite coordinates, a pick at the
\* query point lying exactly on that node's point returns that node with
\* reported distance 0.
C3_PickAtNodeReturnsIt ==
    \A i \in FiniteIndices :
        LET match == pickNodeClosestDatum(QueryAt(i)[1], QueryAt(i)[2])
        IN  /\ match # << >>
            /\ match[1].index = i
            /\ match[1].distance = 0

\* C3 (amended): for every node with finite coordinates and either marker
\* size, a pick at the query point lying exactly on that node's point, when
\* that query point is within radialRangeMax + markerSize of the chart
\* centre, returns with reported distance 0 the first node in array order
\* that lies at that point: the node itself unless an earlier node shares
\* its point.
C3_PickAtNodeReturnsFirstThere ==
    \A i \in FiniteIndices :
        LET q     == QueryAt(i)
            match == pickNodeClosestDatum(q[1], q[2])
            first == CHOOSE j \in FiniteIndices :
                        /\ SamePoint(i, j)
                        /\ \A k \in FiniteIndices : SamePoint(i, k) => j <= k
        IN  SquaredDistance(q[1], q[2], centerX, centerY)
                <= (radiusRange[2] + marker.size) * (radiusRange[2] + marker.size)
            => /\ match # << >>
               /\ match[1].index = first
               /\ match[1].datum = nodeData[first]
               /\ match[1].distance = 0

\* C3 witness: a pick at the point of the second of two coincident nodes has
\* returned the first of them at distance 0.
C3_Witness ==
    /\ ret.op = "pickNodeClosestDatum"
    /\ FiniteIndices = {1, 2}
    /\ SamePoint(1, 2)
    /\ ret.arg = QueryAt(2)
    /\ ret.val # << >>
    /\ ret.val[1].index = 1
    /\ ret.val[1].distance = 0

\* C4: for every query point whose distance from the chart centre is greater
\* than radialRangeMax + markerSize, pickNodeClosestDatum returns no match,
\* whatever the node data is.
C4_OutsideBoundNoMatch ==
    \A q \in QueryGrid :
        SquaredDistance(q[1], q[2], centerX, centerY)
            > (radiusRange[2] + marker.size) * (radiusRange[2] + marker.size)
        => pickNodeClosestDatum(q[1], q[2]) = << >>

\* C4 witness: a pick beyond the bound has returned no match although the
\* node data holds a node with finite coordinates.
C4_Witness ==
    /\ ret.op = "pickNodeClosestDatum"
    /\ SquaredDistance(ret.arg[1], ret.arg[2], centerX, centerY)
           > (radiusRange[2] + marker.size) * (radiusRange[2] + marker.size)
    /\ FiniteIndices # {}
    /\ ret.val = << >>

\* Squared distance of node i from the query point q taken into node space
NodeSquaredDistance(q, i) ==
    SquaredDistance(transformPoint(q[1], q[2]).x, transformPoint(q[1], q[2]).y,
                    nodeData[i].point.x, nodeData[i].point.y)

\* C8: for a query point inside the circular bound, pickNodeClosestDatum
\* returns the node at minimum Euclidean distance from the query point (taken
\* into node space) among the nodes with finite coordinates, the lowest array
\* index winning ties, with reported distance max(that distance - the node's
\* marker size, 0); a node with a non-finite coordinate is never returned,
\* and when no node has finite coordinates there is no match.
C8_PickClosestFirst ==
    \A q \in QueryGrid :
        ~OutsideChart(q[1], q[2]) =>
            LET match == pickNodeClosestDatum(q[1], q[2])
            IN  IF FiniteIndices = {}
                THEN match = << >>
                ELSE /\ match # << >>
                     /\ match[1].index \in FiniteIndices
                     /\ match[1].datum = nodeData[match[1].index]
                     /\ \A j \in FiniteIndices :
                           /\ NodeSquaredDistance(q, match[1].index) <= NodeSquaredDistance(q, j)
                           /\ j < match[1].index =>
                                 NodeSquaredDistance(q, match[1].index) < NodeSquaredDistance(q, j)
                     /\ match[1].distance =
                           Max(Sqrt(NodeSquaredDistance(q, match[1].index))
                                   - nodeData[match[1].index].point.size, 0)

\* C8 witness: a pick between two nodes at distinct points and at the same
\* distance from the query point has returned the first of them, its distance
\* clamped at 0 inside the marker.
C8_Witness ==
    /\ ret.op = "pickNodeClosestDatum"
    /\ FiniteIndices = {1, 2}
    /\ ~SamePoint(1, 2)
    /\ NodeSquaredDistance(ret.arg, 1) = NodeSquaredDistance(ret.arg, 2)
    /\ NodeSquaredDistance(ret.arg, 1) > 0
    /\ ret.val # << >>
    /\ ret.val[1].index = 1
    /\ ret.val[1].distance = 0

\* C11: after every update the highlight marker set has at most one member:
\* when the highlight manager reports an active highlight datum, the series
\* is visible and markers are enabled, its one member is that datum, placed
\* at that datum's point; otherwise it is empty.  It never holds another node.
C11_HighlightHoldsActiveOnly ==
    ret.op = "update" =>
        /\ Len(highlightSelection) <= 1
        /\ IF hasHighlightedDatum /\ visible /\ marker.enabled
           THEN /\ Len(highlightSelection) = 1
                /\ highlightSelection[1].datum = activeHighlight[1]
                /\ highlightSelection[1].translationX = activeHighlight[1].point.x
                /\ highlightSelection[1].translationY = activeHighlight[1].point.y
           ELSE highlightSelection = << >>

\* C11 witness: update has bound the active highlight datum alone to the
\* highlight markers while the series has two nodes bound to its markers.
C11_Witness ==
    /\ ret.op = "update"
    /\ visible /\ marker.enabled
    /\ activeHighlight = <<HighlightDatum>>
    /\ Len(nodeData) = 2
    /\ Len(markerSelection) = 2
    /\ Len(highlightSelection) = 1
    /\ highlightSelection[1].datum = HighlightDatum

\* A step of one of the handlers and entry points that C12 names
HandlerStep ==
    \/ \E e \in LegendClickEvents : onLegendItemClick(e)
    \/ \E e \in LegendEvents : onLegendItemDoubleClick(e)
    \/ \E q \in QueryPoints : CallPickNodeClosestDatum(q[1], q[2])
    \/ \E i \in 1..Len(nodeData) : CallGetTooltipHtml(nodeData[i])

\* C12: the legend click handler, the legend double-click handler,
\* pickNodeClosestDatum and getTooltipHtml leave the node data and the members
\* of every visual aggregate (spokes, ring, path, markers, highlight marker,
\* labels) unchanged, whatever event or point they receive; a step that
\* changes any of them is a step of update.  That is: every step either
\* leaves them all unchanged, or is a step of update and of no handler.
C12_OnlyUpdateChangesVisuals ==
    [][ \/ UNCHANGED <<nodeData, selections>>
        \/ /\ \E r \in SeriesRects : update(r)
           /\ ~HandlerStep ]_vars

\* C12 witness: the legend click handler has hidden the series and the
\* aggregates still hold the members the last update bound: two nodes, two
\* markers, two spokes, the ring and the path.
C12_Witness ==
    /\ ~visible
    /\ nodeDataRefresh
    /\ Len(nodeData) = 2
    /\ Len(markerSelection) = 2
    /\ Len(angleAxisSelection) = 2
    /\ Len(radiusAxisSelection) = 1
    /\ Len(pathSelection) = 1

====
